---- MODULE Spec2Model ----
(***************************************************************************)
(* A model of the fx result library: the [error, value] tuple encoding of  *)
(* outcomes, the function-wrapping adapter fn, the combinators all, any,   *)
(* allAsync, tryCatch and tryCatchAsync, and the promise machinery (the    *)
(* reactions registered by .then / .catch / Promise.all and the microtask  *)
(* queue that runs them) that the asynchronous operators rest on.          *)
(*                                                                         *)
(* Every JavaScript value is a record with a `type` field, so that null,   *)
(* undefined, numbers, arrays, Error objects and promises can be compared  *)
(* with one another. A Result is the two-element array [error, value].     *)
(***************************************************************************)
EXTENDS Integers, Sequences, FiniteSets, TLC

\* ------------------------------------------------------------- bounds
\* the numbers 1..MaxVal are the non-null primitive values
MaxVal == 2
\* the longest sequence handed to all / any
MaxLen == 3
\* the most pending computations handed to allAsync
MaxAsync == 2
\* the longest argument list handed to a wrapped callable
MaxArgs == 1
MaxTags == 2

\* ------------------------------------------------------------- values
Null == [type |-> "null"]
Undefined == [type |-> "undefined"]
Num(i) == [type |-> "number", n |-> i]
Arr(items) == [type |-> "array", items |-> items]
ErrorObj(message) == [type |-> "Error", name |-> "Error", message |-> message]
PromiseRef(id) == [type |-> "Promise", id |-> id]

\* the values a consumer may place in either slot, raise, or reject with
Values == {Null, Undefined} \cup {Num(i) : i \in 1..MaxVal}

UnhandledError(originalError) ==
    [type |-> "UnhandledError", name |-> "UnhandledError",
     message |-> "Unhandled error", originalError |-> originalError]

ok(success) == Arr(<<Null, success>>)
err(error) == Arr(<<error, Null>>)

\* result[0] and result[1] of the source (TLA+ sequences start at 1)
errorOf(result) == result.items[1]
valueOf(result) == result.items[2]

\* isOk deciding by the value slot (result[1] !== null)
isOkByValue(result) == valueOf(result) # Null

isOk(result) == errorOf(result) = Null
isErr(result) == errorOf(result) # Null

\* the outcomes the two constructors produce over Values
Results == {ok(v) : v \in Values} \cup {err(e) : e \in Values}

\* ------------------------------------------------- completions of a call
Return(value) == [kind |-> "return", value |-> value]
Throw(thrown) == [kind |-> "throw", thrown |-> thrown]
NotCalled == [kind |-> "none"]

\* ------------------------------------------------------------ promises
Pending == [state |-> "pending"]
Fulfilled(value) == [state |-> "fulfilled", value |-> value]
Rejected(reason) == [state |-> "rejected", reason |-> reason]

VARIABLES
    op,          \* the operation of the library that was called last
    input,       \* what it was called with
    completion,  \* how the call itself completed: Return(v) or Throw(x)
    promises,    \* the promises alive in the call, by id
    reactions,   \* the reactions .then/.catch/Promise.all registered
    jobs,        \* the microtask queue: reactions whose source has settled
    aggregate,   \* Promise.all's collected values and remaining count
    settled,     \* the caller's computations, in the order in time they settled
    calls,       \* the arguments the caller's callback was invoked with, in order
    heap,        \* what the objects handed to the call hold now
    again        \* how the same call, made once more, completed

vars == <<op, input, completion, promises, reactions, jobs, aggregate, settled, calls,
          heap, again>>

NoAggregate == [values |-> <<>>, remaining |-> 0]

Init ==
    /\ op = "none"
    /\ input = [none |-> TRUE]
    /\ completion = NotCalled
    /\ promises = <<>>
    /\ reactions = <<>>
    /\ jobs = <<>>
    /\ aggregate = NoAggregate
    /\ settled = <<>>
    /\ calls = <<>>
    /\ heap = [none |-> TRUE]
    /\ again = NotCalled


\* ------------------------------------------------------ promise machinery
\* a world is what a call builds: how it completed, and the promises,
\* reactions and queued jobs it leaves behind
World(c, ps, rs, js) ==
    [completion |-> c, promises |-> ps, reactions |-> rs, jobs |-> js]

Reaction(src, dst, handler, index) ==
    [src |-> src, dst |-> dst, handler |-> handler, index |-> index]

\* p.then(handler) / p.catch(handler): a new pending promise derived from
\* p; the reaction is queued at once when p has already settled
Derive(w, p, handler) ==
    LET q == Len(w.promises) + 1
        r == Reaction(p, q, handler, 0)
    IN  World(Return(PromiseRef(q)),
              Append(w.promises, Pending),
              Append(w.reactions, r),
              IF w.promises[p].state = "pending" THEN w.jobs
              ELSE Append(w.jobs, r))

\* the reactions waiting on promise p, in the order they were registered
ReactionsOn(rs, p) == SelectSeq(rs, LAMBDA r : r.src = p)

\* the promises no reaction settles: those the caller's code created
EnvPromises == {p \in DOMAIN promises : \A i \in DOMAIN reactions : reactions[i].dst # p}

\* ------------------------------------------------------------- fn (wrap)
\* the handler given to result.catch, and the catch block of the wrapper
\* a handler that forgets the UnhandledError wrapper
fnOnRejectedBare(error) == err(error)
fnOnRejected(error) == err(UnhandledError(error))
\* a catch block that forgets the UnhandledError wrapper
fnCatchBlockBare(error) == Return(err(error))
fnCatchBlock(error) == Return(err(UnhandledError(error)))

\* the behaviour of a callable on one argument list: it returns a Result,
\* raises, or returns a pending computation ("async")
ReturnsPromise == [kind |-> "async"]
Effects == {Return(r) : r \in Results} \cup {Throw(x) : x \in Values} \cup {ReturnsPromise}
ArgLists == UNION {[1..n -> {Num(1)}] : n \in 0..MaxArgs}
Callables == [ArgLists -> Effects]

\* the world after the callable itself ran
Invoke(effect) ==
    IF effect.kind = "async"
    THEN World(Return(PromiseRef(1)), <<Pending>>, <<>>, <<>>)
    ELSE World(effect, <<>>, <<>>, <<>>)

\* a wrapper without its guarded region: a raise escapes
fnWrapperUnguarded(w) ==
    IF w.completion.kind = "throw" THEN w
    ELSE IF w.completion.value.type = "Promise"
         THEN Derive(w, w.completion.value.id, "fn.catch")
         ELSE w

\* a wrapper that treats a declared failure like a raise
fnWrapperWrapsDeclared(w) ==
    IF w.completion.kind = "throw"
    THEN [w EXCEPT !.completion = fnCatchBlock(w.completion.thrown)]
    ELSE IF w.completion.value.type = "Promise"
         THEN Derive(w, w.completion.value.id, "fn.catch")
         ELSE IF errorOf(w.completion.value) # Null
              THEN [w EXCEPT !.completion = fnCatchBlock(errorOf(w.completion.value))]
              ELSE w

\* the body of the wrapper, given the world `fn(...args)` left
fnWrapper(w) ==
    IF w.completion.kind = "throw"
    THEN [w EXCEPT !.completion = fnCatchBlock(w.completion.thrown)]
    ELSE IF w.completion.value.type = "Promise"
         THEN Derive(w, w.completion.value.id, "fn.catch")
         ELSE w

\* ------------------------------------------------------------ combinators
RECURSIVE allLoop(_, _, _)
allLoop(results, i, values) ==
    IF i > Len(results) THEN ok(Arr(values))
    ELSE LET error == errorOf(results[i])
             value == valueOf(results[i])
         IN  IF error # Null THEN err(error)
             ELSE allLoop(results, i + 1, Append(values, value))

\* an aggregate that keeps scanning and reports the failure it saw last
allReportsLast(results) ==
    LET failing == {i \in DOMAIN results : errorOf(results[i]) # Null}
    IN  IF failing = {} THEN allLoop(results, 1, <<>>)
        ELSE err(errorOf(results[CHOOSE i \in failing : \A j \in failing : j <= i]))

all(results) == allLoop(results, 1, <<>>)

\* the stores of all's loop: (values as any)[i] = value, on the array the
\* name `values` is bound to; memory holds the arrays by name
RECURSIVE allStores(_, _, _)
allStores(memory, values, i) ==
    IF i > Len(memory.results) THEN memory
    ELSE LET error == errorOf(memory.results[i])
             value == valueOf(memory.results[i])
         IN  IF error # Null THEN memory
             ELSE allStores([memory EXCEPT ![values] =
                                 IF i <= Len(@) THEN [@ EXCEPT ![i] = value]
                                 ELSE Append(@, value)],
                            values, i + 1)

\* all collecting the values in the array it was handed
resultsAfterAllInPlace(results) ==
    allStores([results |-> results, values |-> <<>>], "results", 1).results

\* what the array handed to all holds when all has returned: values is a
\* fresh array
resultsAfterAll(results) ==
    allStores([results |-> results, values |-> <<>>], "values", 1).results

RECURSIVE anyLoop(_, _, _)
anyLoop(results, i, lastError) ==
    IF i > Len(results) THEN err(lastError)
    ELSE LET error == errorOf(results[i])
             value == valueOf(results[i])
         IN  IF error = Null THEN ok(value)
             ELSE anyLoop(results, i + 1, error)

\* first-success that reports the first failure instead of the last
anyReportsFirst(results) ==
    IF Len(results) = 0
    THEN Throw(ErrorObj("Cannot call any() on empty array"))
    ELSE IF \E i \in DOMAIN results : errorOf(results[i]) = Null
         THEN Return(anyLoop(results, 1, Null))
         ELSE Return(err(errorOf(results[1])))

\* first-success without its emptiness check
anyUnguarded(results) == Return(anyLoop(results, 1, Null))

any(results) ==
    IF Len(results) = 0
    THEN Throw(ErrorObj("Cannot call any() on empty array"))
    ELSE Return(anyLoop(results, 1, Null))

\* a thunk either returns a value or raises one
Thunks == {Return(v) : v \in Values} \cup {Throw(x) : x \in Values}

tryCatch(fn) ==
    IF fn.kind = "throw" THEN err(fn.thrown) ELSE ok(fn.value)

\* an asynchronous thunk raises before returning, or returns a promise
AsyncThunks == {Throw(x) : x \in Values} \cup {ReturnsPromise}

tryCatchAsyncThen(value) == ok(value)
tryCatchAsyncCatch(error) == err(error)

tryCatchAsync(w) ==
    IF w.completion.kind = "throw" THEN w
    ELSE LET w1 == Derive(w, w.completion.value.id, "tryCatchAsync.then")
         IN  Derive(w1, w1.completion.value.id, "tryCatchAsync.catch")

\* a reduction that reports the failure at the highest position
allAsyncThenLast(resolvedResults) == allReportsLast(resolvedResults.items)
allAsyncThen(resolvedResults) == all(resolvedResults.items)

\* Promise.all(results): one reaction per element, an aggregate promise
PromiseAll(n) ==
    LET agg == n + 1
    IN  World(Return(PromiseRef(agg)),
              [i \in 1..agg |-> IF i = agg /\ n = 0 THEN Fulfilled(Arr(<<>>)) ELSE Pending],
              [i \in 1..n |-> Reaction(i, agg, "Promise.all", i)],
              <<>>)

\* allAsync turning a rejection into a failure outcome with a trailing catch
allAsyncCatches(n) ==
    LET w == Derive(PromiseAll(n), n + 1, "allAsync.then")
    IN  Derive(w, w.completion.value.id, "tryCatchAsync.catch")

allAsync(n) == Derive(PromiseAll(n), n + 1, "allAsync.then")

\* the handler mapAsync gives to then; first without its ok wrapper
mapAsyncThenBare(newValue) == newValue
mapAsyncThen(newValue) == ok(newValue)

\* what one queued reaction does: the new state of its derived promise and
\* of Promise.all's aggregate; s is the settled source, d the derived promise
PromiseAllResolveElement(agg, index, value) ==
    [values |-> [agg.values EXCEPT ![index] = value],
     remaining |-> agg.remaining - 1]

React(r, s, d, agg) ==
    CASE r.handler = "Promise.all" ->
            IF s.state = "fulfilled"
            THEN LET a == PromiseAllResolveElement(agg, r.index, s.value)
                 IN  [promise |-> IF a.remaining = 0 /\ d.state = "pending"
                                  THEN Fulfilled(Arr(a.values)) ELSE d,
                      aggregate |-> a]
            ELSE [promise |-> IF d.state = "pending" THEN Rejected(s.reason) ELSE d,
                  aggregate |-> agg]
      [] r.handler = "fn.catch" ->
            [promise |-> IF s.state = "rejected"
                         THEN Fulfilled(fnOnRejected(s.reason)) ELSE s,
             aggregate |-> agg]
      [] r.handler = "tryCatchAsync.then" ->
            [promise |-> IF s.state = "fulfilled"
                         THEN Fulfilled(tryCatchAsyncThen(s.value)) ELSE s,
             aggregate |-> agg]
      [] r.handler = "tryCatchAsync.catch" ->
            [promise |-> IF s.state = "rejected"
                         THEN Fulfilled(tryCatchAsyncCatch(s.reason)) ELSE s,
             aggregate |-> agg]
      [] r.handler = "mapAsync.then" ->
            [promise |-> IF s.state = "fulfilled"
                         THEN Fulfilled(mapAsyncThen(s.value)) ELSE s,
             aggregate |-> agg]
      [] r.handler = "allAsync.then" ->
            [promise |-> IF s.state = "fulfilled"
                         THEN Fulfilled(allAsyncThen(s.value)) ELSE s,
             aggregate |-> agg]

\* --------------------------------------------------- transformation
\* the functions a caller hands to an operator: the identity, one that
\* raises its argument, the constant functions, and (for the operators whose
\* function returns an outcome) x => ok(x) and x => err(x)
ValueFns ==
    {[fn |-> "id"], [fn |-> "raise"]} \cup {[fn |-> "const", value |-> v] : v \in Values}
OutcomeFns ==
    {[fn |-> "ok"], [fn |-> "err"], [fn |-> "raise"]}
        \cup {[fn |-> "const", value |-> r] : r \in Results}

\* fn(x): how the call of the caller's function completes
Apply(fn, x) ==
    CASE fn.fn = "id" -> Return(x)
      [] fn.fn = "raise" -> Throw(x)
      [] fn.fn = "const" -> Return(fn.value)
      [] fn.fn = "ok" -> Return(ok(x))
      [] fn.fn = "err" -> Return(err(x))

\* what a synchronous operator did: how it completed, and the arguments it
\* invoked the caller's function with
Ran(c, cs) == [completion |-> c, calls |-> cs]

map(result, fn) ==
    LET error == errorOf(result)
        value == valueOf(result)
        called == Apply(fn, value)
    IN  IF error # Null THEN Ran(Return(err(error)), <<>>)
        ELSE Ran(IF called.kind = "throw" THEN called ELSE Return(ok(called.value)),
                 <<value>>)

\* andThen with the function invoked before the error is tested
andThenEager(result, fn) ==
    LET error == errorOf(result)
        value == valueOf(result)
        called == Apply(fn, value)
    IN  IF called.kind = "throw" THEN Ran(called, <<value>>)
        ELSE IF error # Null THEN Ran(Return(err(error)), <<value>>)
        ELSE Ran(called, <<value>>)

\* andThen wrapping what the function returns, as map does
andThenWraps(result, fn) == map(result, fn)

andThen(result, fn) ==
    LET error == errorOf(result)
        value == valueOf(result)
    IN  IF error # Null THEN Ran(Return(err(error)), <<>>)
        ELSE Ran(Apply(fn, value), <<value>>)

mapError(result, fn) ==
    LET error == errorOf(result)
        value == valueOf(result)
        called == Apply(fn, error)
    IN  IF error = Null THEN Ran(Return(ok(value)), <<>>)
        ELSE Ran(IF called.kind = "throw" THEN called ELSE Return(err(called.value)),
                 <<error>>)

\* orElse with the function invoked before the error is tested
orElseEager(result, fn) ==
    LET error == errorOf(result)
        value == valueOf(result)
        called == Apply(fn, error)
    IN  IF called.kind = "throw" THEN Ran(called, <<error>>)
        ELSE IF error = Null THEN Ran(Return(ok(value)), <<error>>)
        ELSE Ran(called, <<error>>)

orElse(result, fn) ==
    LET error == errorOf(result)
        value == valueOf(result)
    IN  IF error = Null THEN Ran(Return(ok(value)), <<>>)
        ELSE Ran(Apply(fn, error), <<error>>)

unwrap(result) ==
    LET error == errorOf(result)
        value == valueOf(result)
    IN  IF error # Null THEN Ran(Throw(error), <<>>) ELSE Ran(Return(value), <<>>)

\* unwrapOr raising the error, as unwrap does
unwrapOrThrows(result, defaultValue) == unwrap(result)

\* unwrapOr falling back whenever the value is null (value ?? defaultValue)
unwrapOrNullish(result, defaultValue) ==
    LET value == valueOf(result)
    IN  Ran(Return(IF value = Null THEN defaultValue ELSE value), <<>>)

unwrapOr(result, defaultValue) ==
    LET error == errorOf(result)
        value == valueOf(result)
    IN  IF error # Null THEN Ran(Return(defaultValue), <<>>)
        ELSE Ran(Return(value), <<>>)

unwrapOrElse(result, fn) ==
    LET error == errorOf(result)
        value == valueOf(result)
    IN  IF error # Null THEN Ran(Apply(fn, error), <<error>>)
        ELSE Ran(Return(value), <<>>)

\* zip testing its second argument before its first
zipRightFirst(result1, result2) ==
    LET error1 == errorOf(result1)
        value1 == valueOf(result1)
        error2 == errorOf(result2)
        value2 == valueOf(result2)
    IN  IF error2 # Null THEN err(error2)
        ELSE IF error1 # Null THEN err(error1)
        ELSE ok(Arr(<<value1, value2>>))

zip(result1, result2) ==
    LET error1 == errorOf(result1)
        value1 == valueOf(result1)
        error2 == errorOf(result2)
        value2 == valueOf(result2)
    IN  IF error1 # Null THEN err(error1)
        ELSE IF error2 # Null THEN err(error2)
        ELSE ok(Arr(<<value1, value2>>))

\* zip3 without the test of its second argument
zip3SkipsSecond(result1, result2, result3) ==
    LET error1 == errorOf(result1)
        value1 == valueOf(result1)
        value2 == valueOf(result2)
        error3 == errorOf(result3)
        value3 == valueOf(result3)
    IN  IF error1 # Null THEN err(error1)
        ELSE IF error3 # Null THEN err(error3)
        ELSE ok(Arr(<<value1, value2, value3>>))

zip3(result1, result2, result3) ==
    LET error1 == errorOf(result1)
        value1 == valueOf(result1)
        error2 == errorOf(result2)
        value2 == valueOf(result2)
        error3 == errorOf(result3)
        value3 == valueOf(result3)
    IN  IF error1 # Null THEN err(error1)
        ELSE IF error2 # Null THEN err(error2)
        ELSE IF error3 # Null THEN err(error3)
        ELSE ok(Arr(<<value1, value2, value3>>))

\* ------------------------------------------------------- tagged errors
Str(chars) == [type |-> "string", chars |-> chars]
Tags == {Str("A"), Str("B")}
TypeError == [type |-> "TypeError"]

\* { tag, error }
tagError(tag, error) == [type |-> "object", tag |-> tag, error |-> error]
errTagged(tag, error) == err(tagError(tag, error))

\* x.tag and x.error of a value that is neither null nor undefined: the
\* property of an object, undefined on a primitive
TagOf(x) == IF x.type = "object" THEN x.tag ELSE Undefined
ErrorOf(x) == IF x.type = "object" THEN x.error ELSE Undefined

\* the outcomes handed to the tag operators: successes, tagged failures and
\* failures whose error is a plain value
TaggedResults ==
    Results \cup {errTagged(tag, error) : tag \in Tags, error \in Values}

\* catchByTag handing every failure to the handler, whatever its tag
catchByTagAnyTag(result, tag, handler) ==
    LET error == errorOf(result)
        value == valueOf(result)
    IN  IF error = Null THEN Ran(Return(ok(value)), <<>>)
        ELSE IF error = Undefined THEN Ran(Throw(TypeError), <<>>)
        ELSE Ran(Apply(handler, ErrorOf(error)), <<ErrorOf(error)>>)

catchByTag(result, tag, handler) ==
    LET error == errorOf(result)
        value == valueOf(result)
    IN  IF error = Null THEN Ran(Return(ok(value)), <<>>)
        ELSE IF error = Undefined THEN Ran(Throw(TypeError), <<>>)
        ELSE IF TagOf(error) = tag
             THEN Ran(Apply(handler, ErrorOf(error)), <<ErrorOf(error)>>)
        ELSE Ran(Return(err(error)), <<>>)

\* tags.includes(x)
includes(tags, x) == \E i \in DOMAIN tags : tags[i] = x

\* the tag collections handed to catchByTags: in either order, with repeats
TagLists == UNION {[1..k -> Tags] : k \in 0..MaxTags}

\* catchByTags comparing with the first tag of the collection only
catchByTagsFirstOnly(result, tags, handler) ==
    LET error == errorOf(result)
        value == valueOf(result)
    IN  IF error = Null THEN Ran(Return(ok(value)), <<>>)
        ELSE IF error = Undefined THEN Ran(Throw(TypeError), <<>>)
        ELSE IF tags # <<>> /\ tags[1] = TagOf(error)
             THEN Ran(Apply(handler, ErrorOf(error)), <<ErrorOf(error)>>)
        ELSE Ran(Return(err(error)), <<>>)

catchByTags(result, tags, handler) ==
    LET error == errorOf(result)
        value == valueOf(result)
    IN  IF error = Null THEN Ran(Return(ok(value)), <<>>)
        ELSE IF error = Undefined THEN Ran(Throw(TypeError), <<>>)
        ELSE IF includes(tags, TagOf(error))
             THEN Ran(Apply(handler, ErrorOf(error)), <<ErrorOf(error)>>)
        ELSE Ran(Return(err(error)), <<>>)

\* the values handed to the constructors: the plain values, sequences,
\* records and outcomes
Payloads ==
    Values \cup {Arr(<<>>), Arr(<<Num(1), Null>>), ErrorObj("boom"),
                 tagError(Str("A"), Null), ok(Num(1)), err(Num(1))}

\* ------------------------------------------------- asynchronous variants
\* the functions handed to an asynchronous variant: one that raises its
\* argument before any suspension, and one that returns a pending
\* computation the caller later resolves or rejects
AsyncFns == {[fn |-> "raise"], [fn |-> "async"]}

\* what an asynchronous variant did: the world it left and the arguments it
\* invoked the caller's function with
RanAsync(w, cs) == [world |-> w, calls |-> cs]

\* Promise.resolve(value)
PromiseResolve(value) == World(Return(PromiseRef(1)), <<Fulfilled(value)>>, <<>>, <<>>)

\* fn(x) for a function of AsyncFns
ApplyAsync(fn, x) ==
    IF fn.fn = "raise" THEN World(Throw(x), <<>>, <<>>, <<>>) ELSE Invoke(ReturnsPromise)

mapAsync(result, fn) ==
    LET error == errorOf(result)
        value == valueOf(result)
        called == ApplyAsync(fn, value)
    IN  IF error # Null THEN RanAsync(PromiseResolve(err(error)), <<>>)
        ELSE IF called.completion.kind = "throw" THEN RanAsync(called, <<value>>)
        ELSE RanAsync(Derive(called, called.completion.value.id, "mapAsync.then"),
                      <<value>>)

andThenAsync(result, fn) ==
    LET error == errorOf(result)
        value == valueOf(result)
    IN  IF error # Null THEN RanAsync(PromiseResolve(err(error)), <<>>)
        ELSE RanAsync(ApplyAsync(fn, value), <<value>>)

catchByTagAsync(result, tag, handler) ==
    LET error == errorOf(result)
        value == valueOf(result)
    IN  IF error = Null THEN RanAsync(PromiseResolve(ok(value)), <<>>)
        ELSE IF error = Undefined THEN RanAsync(World(Throw(TypeError), <<>>, <<>>, <<>>), <<>>)
        ELSE IF TagOf(error) = tag
             THEN RanAsync(ApplyAsync(handler, ErrorOf(error)), <<ErrorOf(error)>>)
        ELSE RanAsync(PromiseResolve(err(error)), <<>>)

catchByTagsAsync(result, tags, handler) ==
    LET error == errorOf(result)
        value == valueOf(result)
    IN  IF error = Null THEN RanAsync(PromiseResolve(ok(value)), <<>>)
        ELSE IF error = Undefined THEN RanAsync(World(Throw(TypeError), <<>>, <<>>, <<>>), <<>>)
        ELSE IF includes(tags, TagOf(error))
             THEN RanAsync(ApplyAsync(handler, ErrorOf(error)), <<ErrorOf(error)>>)
        ELSE RanAsync(PromiseResolve(err(error)), <<>>)

\* ---------------------------------------------------------------- actions
SeqsUpTo(S, n) == UNION {[1..k -> S] : k \in 0..n}

\* a call leaves its world behind: how it completed, and what it registered
Install(name, in, w, agg) ==
    /\ op' = name
    /\ input' = in
    /\ completion' = w.completion
    /\ promises' = w.promises
    /\ reactions' = w.reactions
    /\ jobs' = w.jobs
    /\ aggregate' = agg
    /\ settled' = <<>>
    /\ calls' = <<>>
    /\ heap' = in
    /\ again' = NotCalled

Sync(c) == World(c, <<>>, <<>>, <<>>)

\* a call of a synchronous operator that may invoke the caller's function;
\* after is what the objects it was handed hold when it has returned
InstallHeap(name, in, ran, after) ==
    /\ op' = name
    /\ input' = in
    /\ completion' = ran.completion
    /\ calls' = ran.calls
    /\ promises' = <<>>
    /\ reactions' = <<>>
    /\ jobs' = <<>>
    /\ aggregate' = NoAggregate
    /\ settled' = <<>>
    /\ heap' = after
    /\ again' = NotCalled

\* a call of an operator whose code holds no store at all
InstallRan(name, in, ran) == InstallHeap(name, in, ran, in)

\* fn(callee)(...args)
CallFn ==
    /\ op = "none"
    /\ \E callee \in Callables, args \in ArgLists :
        Install("fn", [callee |-> callee, args |-> args],
                fnWrapper(Invoke(callee[args])), NoAggregate)

CallAll ==
    /\ op = "none"
    /\ \E results \in SeqsUpTo(Results, MaxLen) :
        InstallHeap("all", [results |-> results], Ran(Return(all(results)), <<>>),
                    [results |-> resultsAfterAll(results)])

CallAny ==
    /\ op = "none"
    /\ \E results \in SeqsUpTo(Results, MaxLen) :
        Install("any", [results |-> results], Sync(any(results)), NoAggregate)

\* allAsync over n pending computations the caller created
CallAllAsync ==
    /\ op = "none"
    /\ \E n \in 0..MaxAsync :
        Install("allAsync", [results |-> [i \in 1..n |-> PromiseRef(i)]],
                allAsync(n),
                [values |-> [i \in 1..n |-> Undefined], remaining |-> n])

CallTryCatch ==
    /\ op = "none"
    /\ \E fn \in Thunks :
        Install("tryCatch", [fn |-> fn], Sync(Return(tryCatch(fn))), NoAggregate)

CallTryCatchAsync ==
    /\ op = "none"
    /\ \E fn \in AsyncThunks :
        Install("tryCatchAsync", [fn |-> fn], tryCatchAsync(Invoke(fn)), NoAggregate)

CallMap ==
    /\ op = "none"
    /\ \E result \in Results, fn \in ValueFns :
        InstallRan("map", [result |-> result, fn |-> fn], map(result, fn))

CallAndThen ==
    /\ op = "none"
    /\ \E result \in Results, fn \in OutcomeFns :
        InstallRan("andThen", [result |-> result, fn |-> fn], andThen(result, fn))

CallMapError ==
    /\ op = "none"
    /\ \E result \in Results, fn \in ValueFns :
        InstallRan("mapError", [result |-> result, fn |-> fn], mapError(result, fn))

CallOrElse ==
    /\ op = "none"
    /\ \E result \in Results, fn \in OutcomeFns :
        InstallRan("orElse", [result |-> result, fn |-> fn], orElse(result, fn))

CallUnwrap ==
    /\ op = "none"
    /\ \E result \in Results :
        InstallRan("unwrap", [result |-> result], unwrap(result))

CallUnwrapOr ==
    /\ op = "none"
    /\ \E result \in Results, defaultValue \in Values :
        InstallRan("unwrapOr", [result |-> result, defaultValue |-> defaultValue],
                   unwrapOr(result, defaultValue))

CallUnwrapOrElse ==
    /\ op = "none"
    /\ \E result \in Results, fn \in ValueFns :
        InstallRan("unwrapOrElse", [result |-> result, fn |-> fn],
                   unwrapOrElse(result, fn))

CallZip ==
    /\ op = "none"
    /\ \E result1 \in Results, result2 \in Results :
        InstallRan("zip", [results |-> <<result1, result2>>],
                   Ran(Return(zip(result1, result2)), <<>>))

CallZip3 ==
    /\ op = "none"
    /\ \E result1 \in Results, result2 \in Results, result3 \in Results :
        InstallRan("zip3", [results |-> <<result1, result2, result3>>],
                   Ran(Return(zip3(result1, result2, result3)), <<>>))

CallCatchByTag ==
    /\ op = "none"
    /\ \E result \in TaggedResults, tag \in Tags, handler \in OutcomeFns :
        InstallRan("catchByTag", [result |-> result, tag |-> tag, handler |-> handler],
                   catchByTag(result, tag, handler))

CallCatchByTags ==
    /\ op = "none"
    /\ \E result \in TaggedResults, tags \in TagLists, handler \in OutcomeFns :
        InstallRan("catchByTags", [result |-> result, tags |-> tags, handler |-> handler],
                   catchByTags(result, tags, handler))

CallOk ==
    /\ op = "none"
    /\ \E success \in Payloads :
        InstallRan("ok", [value |-> success], Ran(Return(ok(success)), <<>>))

CallErr ==
    /\ op = "none"
    /\ \E error \in Payloads :
        InstallRan("err", [error |-> error], Ran(Return(err(error)), <<>>))

\* a call of an asynchronous variant
InstallRanAsync(name, in, ran) ==
    /\ op' = name
    /\ input' = in
    /\ completion' = ran.world.completion
    /\ calls' = ran.calls
    /\ promises' = ran.world.promises
    /\ reactions' = ran.world.reactions
    /\ jobs' = ran.world.jobs
    /\ aggregate' = NoAggregate
    /\ settled' = <<>>
    /\ heap' = in
    /\ again' = NotCalled

CallMapAsync ==
    /\ op = "none"
    /\ \E result \in Results, fn \in AsyncFns :
        InstallRanAsync("mapAsync", [result |-> result, fn |-> fn],
                        mapAsync(result, fn))

CallAndThenAsync ==
    /\ op = "none"
    /\ \E result \in Results, fn \in AsyncFns :
        InstallRanAsync("andThenAsync", [result |-> result, fn |-> fn],
                        andThenAsync(result, fn))

CallCatchByTagAsync ==
    /\ op = "none"
    /\ \E result \in TaggedResults, tag \in Tags, handler \in AsyncFns :
        InstallRanAsync("catchByTagAsync",
                        [result |-> result, tag |-> tag, handler |-> handler],
                        catchByTagAsync(result, tag, handler))

CallCatchByTagsAsync ==
    /\ op = "none"
    /\ \E result \in TaggedResults, tags \in TagLists, handler \in AsyncFns :
        InstallRanAsync("catchByTagsAsync",
                        [result |-> result, tags |-> tags, handler |-> handler],
                        catchByTagsAsync(result, tags, handler))

\* the operators called a second time
AgainOps == {"all", "any", "map", "andThen", "mapError", "orElse"}

\* the same call once more, on the objects as they are now
CallAgain ==
    /\ op \in AgainOps
    /\ again = NotCalled
    /\ again' = CASE op = "all" -> Return(all(heap.results))
                  [] op = "any" -> any(heap.results)
                  [] op = "map" -> map(heap.result, heap.fn).completion
                  [] op = "andThen" -> andThen(heap.result, heap.fn).completion
                  [] op = "mapError" -> mapError(heap.result, heap.fn).completion
                  [] op = "orElse" -> orElse(heap.result, heap.fn).completion
    /\ UNCHANGED <<op, input, completion, promises, reactions, jobs, aggregate,
                   settled, calls, heap>>

\* fn(fn(callee))(...args): the outer wrapper calls the inner one with the
\* arguments, and the inner one calls the callable with them
CallFnOfFn ==
    /\ op = "none"
    /\ \E callee \in Callables, args \in ArgLists :
        InstallRanAsync("fn(fn)", [callee |-> callee, args |-> args],
                        RanAsync(fnWrapper(fnWrapper(Invoke(callee[args]))), <<args>>))

\* what a pending computation of the caller may resolve with: a plain value
\* for tryCatchAsync's thunk and mapAsync's function, a Result for fn's
\* callable, allAsync's inputs and the other asynchronous variants
Resolutions == IF op \in {"tryCatchAsync", "mapAsync"} THEN Values ELSE Results

Settle(p, outcome) ==
    /\ p \in EnvPromises
    /\ promises[p].state = "pending"
    /\ promises' = [promises EXCEPT ![p] = outcome]
    /\ jobs' = jobs \o ReactionsOn(reactions, p)
    /\ settled' = Append(settled, p)
    /\ UNCHANGED <<op, input, completion, reactions, aggregate, calls, heap, again>>

\* a computation of the caller resolves
Resolve == \E p \in DOMAIN promises, v \in Resolutions : Settle(p, Fulfilled(v))

\* a computation of the caller rejects
Reject == \E p \in DOMAIN promises, x \in Values : Settle(p, Rejected(x))

\* the microtask at the head of the queue runs
RunJob ==
    /\ jobs # <<>>
    /\ LET r == Head(jobs)
           d == promises[r.dst]
           out == React(r, promises[r.src], d, aggregate)
       IN  /\ promises' = [promises EXCEPT ![r.dst] = out.promise]
           /\ aggregate' = out.aggregate
           /\ jobs' = Tail(jobs) \o
                      (IF d.state = "pending" /\ out.promise.state # "pending"
                       THEN ReactionsOn(reactions, r.dst) ELSE <<>>)
    /\ UNCHANGED <<op, input, completion, reactions, settled, calls, heap, again>>

Next ==
    \/ CallFn
    \/ CallAll
    \/ CallAny
    \/ CallAllAsync
    \/ CallTryCatch
    \/ CallTryCatchAsync
    \/ CallMap
    \/ CallAndThen
    \/ CallMapError
    \/ CallOrElse
    \/ CallUnwrap
    \/ CallUnwrapOr
    \/ CallUnwrapOrElse
    \/ CallZip
    \/ CallZip3
    \/ CallCatchByTag
    \/ CallCatchByTags
    \/ CallOk
    \/ CallErr
    \/ CallMapAsync
    \/ CallAndThenAsync
    \/ CallCatchByTagAsync
    \/ CallCatchByTagsAsync
    \/ CallAgain
    \/ CallFnOfFn
    \/ Resolve
    \/ Reject
    \/ RunJob

Spec == Init /\ [][Next]_vars

\* the host's event loop runs every queued microtask
FairSpec == Spec /\ WF_vars(RunJob)


\* ================================================================ claims
\* every outcome a wrapped callable can yield: its own, or a wrapped raise
Outcomes == Results \cup {err(UnhandledError(x)) : x \in Values}

IsPromise(c) == c.kind = "return" /\ c.value.type = "Promise"

\* what the callable handed to fn did on the arguments it was called with
FnEffect == input.callee[input.args]
\* the callable's own pending computation, and the one the wrapper returned
FnInner == promises[1]
FnOuter == promises[completion.value.id]

IsUnhandled(outcome, x) ==
    /\ isErr(outcome)
    /\ errorOf(outcome).type = "UnhandledError"
    /\ errorOf(outcome).originalError = x
    /\ valueOf(outcome) = Null

\* ---- C1
FnNeverRaises ==
    op = "fn" =>
        /\ completion.kind = "return"
        /\ \/ completion.value \in Outcomes
           \/ /\ completion.value.type = "Promise"
              /\ FnOuter.state # "rejected"
              /\ FnOuter.state = "fulfilled" => FnOuter.value \in Outcomes

FnInnerSettled == op = "fn" /\ FnEffect.kind = "async" /\ FnInner.state # "pending"
FnOuterFulfilled == op = "fn" /\ IsPromise(completion) /\ FnOuter.state = "fulfilled"

C2_SyncRaiseIsUnhandled ==
    (op = "fn" /\ FnEffect.kind = "throw") =>
        /\ completion.kind = "return"
        /\ completion.value.type # "Promise"
        /\ IsUnhandled(completion.value, FnEffect.thrown)
        /\ promises = <<>>
        /\ jobs = <<>>

\* the callable raised null
C2_Witness ==
    /\ op = "fn"
    /\ FnEffect = Throw(Null)
    /\ completion.kind = "return"

\* C3: when the callable returns a pending computation, the wrapper returns
\* a pending computation that stays pending while the inner one is pending,
\* is never rejected, is fulfilled with the inner outcome when the inner one
\* resolved, and with a failure wrapping UnhandledError(reason) when the
\* inner one rejected; once the inner one has settled and the queued
\* reactions have run, it is fulfilled.
C3_AsyncResolvesNeverRejects ==
    (op = "fn" /\ FnEffect.kind = "async") =>
        /\ IsPromise(completion)
        /\ completion.value.id # 1
        /\ FnOuter.state # "rejected"
        /\ FnInner.state = "pending" => FnOuter.state = "pending"
        /\ (FnInner.state # "pending" /\ jobs = <<>>) => FnOuter.state = "fulfilled"
        /\ (FnOuter.state = "fulfilled" /\ FnInner.state = "fulfilled") =>
               FnOuter.value = FnInner.value
        /\ (FnOuter.state = "fulfilled" /\ FnInner.state = "rejected") =>
               IsUnhandled(FnOuter.value, FnInner.reason)

\* the inner computation rejected with null and the wrapper's one resolved
C3_Witness ==
    /\ op = "fn"
    /\ FnEffect.kind = "async"
    /\ FnInner = Rejected(Null)
    /\ FnOuter.state = "fulfilled"
    /\ jobs = <<>>

\* the outcome the wrapper has yielded so far, if any
FnYielded ==
    IF ~IsPromise(completion) THEN {completion.value}
    ELSE IF FnOuter.state = "fulfilled" THEN {FnOuter.value} ELSE {}

\* C4: a synchronous result of the callable is returned exactly as it is,
\* a declared failure included, and the wrapper's outcome carries an
\* UnhandledError only when the callable raised or its pending computation
\* rejected.
C4_SyncResultUnchanged ==
    op = "fn" =>
        /\ FnEffect.kind = "return" =>
               /\ completion = Return(FnEffect.value)
               /\ promises = <<>>
        /\ completion.kind = "return"
        /\ \A outcome \in FnYielded :
               errorOf(outcome).type = "UnhandledError" =>
                   \/ FnEffect.kind = "throw"
                   \/ FnEffect.kind = "async" /\ FnInner.state = "rejected"

\* the callable declared a failure of its own
C4_Witness ==
    /\ op = "fn"
    /\ FnEffect.kind = "return"
    /\ isErr(FnEffect.value)
    /\ completion.kind = "return"
    /\ isErr(completion.value)


\* ---- all / any
Lowest(S) == CHOOSE i \in S : \A j \in S : i <= j
FailingAt(results) == {i \in DOMAIN results : isErr(results[i])}
SucceedingAt(results) == {i \in DOMAIN results : isOk(results[i])}
ValuesOf(results) == [i \in 1..Len(results) |-> valueOf(results[i])]

\* what the aggregate of a sequence of outcomes has to be
FirstFailureOrAll(results) ==
    IF FailingAt(results) # {} THEN results[Lowest(FailingAt(results))]
    ELSE ok(Arr(ValuesOf(results)))

\* C5: all(outcomes) returns the failure at the lowest index when some
\* entry is a failure, whatever fails after it; otherwise success wrapping
\* the entries' values in their order, as many as there are entries; and
\* success with the empty sequence for the empty sequence.
C5_AllFirstFailureByPosition ==
    op = "all" =>
        /\ completion = Return(FirstFailureOrAll(input.results))
        /\ FailingAt(input.results) = {} =>
               /\ isOk(completion.value)
               /\ Len(valueOf(completion.value).items) = Len(input.results)
        /\ input.results = <<>> => completion = Return(ok(Arr(<<>>)))

\* two different failures after a success: the earlier one is reported
C5_Witness ==
    /\ op = "all"
    /\ Len(input.results) = 3
    /\ FailingAt(input.results) = {2, 3}
    /\ input.results[2] # input.results[3]
    /\ completion = Return(input.results[2])

\* C6: any(outcomes) over a non-empty sequence returns the first success in
\* order when there is one, and otherwise the failure of the last entry.
C6_AnyFirstSuccessElseLastFailure ==
    (op = "any" /\ input.results # <<>>) =>
        IF SucceedingAt(input.results) # {}
        THEN completion = Return(input.results[Lowest(SucceedingAt(input.results))])
        ELSE /\ completion = Return(input.results[Len(input.results)])
             /\ isErr(completion.value)

\* every entry fails, first and last differently: the last is reported
C6_Witness ==
    /\ op = "any"
    /\ Len(input.results) >= 2
    /\ SucceedingAt(input.results) = {}
    /\ input.results[1] # input.results[Len(input.results)]
    /\ completion = Return(input.results[Len(input.results)])

\* C7: any on the empty sequence raises; it returns no outcome.
C7_AnyEmptyRaises ==
    (op = "any" /\ input.results = <<>>) =>
        /\ completion.kind = "throw"
        /\ completion.thrown = ErrorObj("Cannot call any() on empty array")

C7_Witness ==
    /\ op = "any"
    /\ Len(input.results) = 0
    /\ completion.kind # "none"

\* ---- allAsync
AllAsyncOuter == promises[completion.value.id]
AllAsyncN == Len(input.results)

\* C8: allAsync's pending computation is fulfilled with an outcome only
\* once every constituent has settled, and that outcome is the failure at
\* the lowest position of the input (or success with all values in input
\* order), whatever the order in time in which the constituents settled.
C8_AllAsyncAfterAllSettled ==
    op = "allAsync" =>
        /\ IsPromise(completion)
        /\ AllAsyncOuter.state = "fulfilled" =>
               /\ \A i \in 1..AllAsyncN : promises[i].state = "fulfilled"
               /\ Len(settled) = AllAsyncN
               /\ AllAsyncOuter.value =
                      FirstFailureOrAll([i \in 1..AllAsyncN |-> promises[i].value])

\* both constituents fail, the second settles first: the first is reported
C8_Witness ==
    /\ op = "allAsync"
    /\ settled = <<2, 1>>
    /\ AllAsyncOuter.state = "fulfilled"
    /\ isErr(promises[1].value)
    /\ isErr(promises[2].value)
    /\ promises[1].value # promises[2].value
    /\ AllAsyncOuter.value = promises[1].value

\* ---- tryCatch / tryCatchAsync
\* a failure wrapping x: the library's own isErr holds and the error is x
IsFailureOf(outcome, x) == isErr(outcome) /\ errorOf(outcome) = x
IsSuccessOf(outcome, v) == isOk(outcome) /\ valueOf(outcome) = v

\* C9: tryCatch(thunk) never raises; it returns success wrapping the
\* thunk's return value when the thunk returns, and a failure wrapping the
\* raised value when the thunk raises, for every raised value.
C9_TryCatchCapturesEveryRaise ==
    op = "tryCatch" =>
        /\ completion.kind = "return"
        /\ input.fn.kind = "return" => IsSuccessOf(completion.value, input.fn.value)
        /\ input.fn.kind = "throw" => IsFailureOf(completion.value, input.fn.thrown)

TryCatchAsyncInner == promises[1]
TryCatchAsyncOuter == promises[completion.value.id]

\* C10: tryCatchAsync(thunk) captures the thunk's failure whether the thunk
\* raises or its pending computation rejects: it returns a pending
\* computation that is never rejected, resolves to a failure wrapping the
\* raised or rejected value, and resolves to success(v) when the thunk's
\* computation resolves with v.
C10_TryCatchAsyncCapturesRaiseAndRejection ==
    op = "tryCatchAsync" =>
        /\ IsPromise(completion)
        /\ TryCatchAsyncOuter.state # "rejected"
        /\ TryCatchAsyncOuter.state = "fulfilled" =>
               IF input.fn.kind = "throw"
               THEN IsFailureOf(TryCatchAsyncOuter.value, input.fn.thrown)
               ELSE IF TryCatchAsyncInner.state = "rejected"
                    THEN IsFailureOf(TryCatchAsyncOuter.value, TryCatchAsyncInner.reason)
                    ELSE IsSuccessOf(TryCatchAsyncOuter.value, TryCatchAsyncInner.value)


\* ---- transformation operators
\* C11: for every failure outcome f, whatever its error value, and every
\* transformer g, map(f, g) is f and g is not invoked; for every
\* success(v), map returns success(g(v)).
C11_MapShortCircuits ==
    op = "map" =>
        /\ \A e \in Values :
               input.result = err(e) =>
                   /\ completion = Return(input.result)
                   /\ IsFailureOf(completion.value, e)
                   /\ calls = <<>>
        /\ \A v \in Values :
               (input.result = ok(v) /\ Apply(input.fn, v).kind = "return") =>
                   /\ completion = Return(ok(Apply(input.fn, v).value))
                   /\ calls = <<v>>

\* the outcome handed to the operator, its error and its value
Given == input.result
GivenError == errorOf(input.result)
GivenValue == valueOf(input.result)

\* C12: on a failure andThen returns that failure and never calls g; on
\* success(v) it calls g(v) and completes exactly as g(v) does.
C12_AndThenChains ==
    op = "andThen" =>
        /\ isErr(Given) => (completion = Return(Given) /\ calls = <<>>)
        /\ isOk(Given) =>
               /\ completion = Apply(input.fn, GivenValue)
               /\ calls = <<GivenValue>>

C12_Witness ==
    /\ op = "andThen"
    /\ isErr(Given)
    /\ input.fn = [fn |-> "ok"]
    /\ completion = Return(Given)

\* C13: map with the identity and andThen with x => success(x) both return
\* success(v) when given success(v), for every value v.
C13_IdentityLaws ==
    \A v \in Values :
        /\ (op = "map" /\ Given = ok(v) /\ input.fn = [fn |-> "id"]) =>
               completion = Return(ok(v))
        /\ (op = "andThen" /\ Given = ok(v) /\ input.fn = [fn |-> "ok"]) =>
               completion = Return(ok(v))

C13_Witness ==
    /\ op = "andThen"
    /\ Given = ok(Num(1))
    /\ input.fn = [fn |-> "ok"]
    /\ completion = Return(ok(Num(1)))

\* C14: on failure(e) mapError returns the failure carrying f(e); on a
\* success it returns the success unchanged and does not invoke f.
C14_MapErrorTransformsFailure ==
    op = "mapError" =>
        /\ (isErr(Given) /\ Apply(input.fn, GivenError).kind = "return") =>
               /\ completion.kind = "return"
               /\ IsFailureOf(completion.value, Apply(input.fn, GivenError).value)
               /\ calls = <<GivenError>>
        /\ isOk(Given) => (completion = Return(Given) /\ calls = <<>>)

\* C15: on every failure(e) orElse invokes f(e) and completes exactly as f(e)
\* does; on a success it returns the success unchanged and does not invoke f.
C15_OrElseRecovers ==
    op = "orElse" =>
        /\ isErr(Given) =>
               /\ completion = Apply(input.fn, GivenError)
               /\ calls = <<GivenError>>
        /\ isOk(Given) => (completion = Return(Given) /\ calls = <<>>)

C15_Witness ==
    /\ op = "orElse"
    /\ isErr(Given)
    /\ input.fn = [fn |-> "ok"]
    /\ completion = Return(ok(GivenError))
    /\ calls = <<GivenError>>

\* C16: unwrap(success(v)) returns v for every v, and unwrap(failure(e))
\* raises exactly e for every e.
C16_UnwrapRoundTrip ==
    op = "unwrap" =>
        /\ \A v \in Values : Given = ok(v) => completion = Return(v)
        /\ \A e \in Values : Given = err(e) => completion = Throw(e)

C18_UnwrapOrValues ==
    /\ op = "unwrapOr" =>
           /\ isOk(Given) => completion = Return(GivenValue)
           /\ isErr(Given) => completion = Return(input.defaultValue)
    /\ op = "unwrapOrElse" =>
           /\ isOk(Given) => (completion = Return(GivenValue) /\ calls = <<>>)
           /\ isErr(Given) =>
                  /\ completion = Apply(input.fn, GivenError)
                  /\ calls = <<GivenError>>

C18_Witness ==
    /\ op = "unwrapOr"
    /\ Given = ok(Null)
    /\ input.defaultValue = Num(1)
    /\ completion = Return(Null)

\* C19: zip and zip3 return the failure of the leftmost failing argument,
\* whatever the arguments to its right are, and success wrapping the tuple
\* of the values in argument order when every argument is a success.
C19_ZipLeftmostFailure ==
    op \in {"zip", "zip3"} =>
        completion = Return(FirstFailureOrAll(input.results))

C19_Witness ==
    /\ op = "zip"
    /\ input.results = <<err(Num(1)), err(Num(2))>>
    /\ completion = Return(err(Num(1)))

\* a tagged-error record, as tagError builds it
IsTagged(x) == x.type = "object"

\* C20: when the outcome is a failure whose tagged error carries exactly the
\* given tag, catchByTag completes as handler(error.error) does; for a
\* success, or a failure carrying another tag, it returns the outcome
\* unchanged and does not invoke the handler.
C20_CatchByTagMatchesTag ==
    op = "catchByTag" =>
        /\ (isErr(Given) /\ IsTagged(GivenError) /\ GivenError.tag = input.tag) =>
               /\ completion = Apply(input.handler, GivenError.error)
               /\ calls = <<GivenError.error>>
        /\ (isOk(Given)
               \/ (isErr(Given) /\ IsTagged(GivenError) /\ GivenError.tag # input.tag)) =>
               /\ completion = Return(Given)
               /\ calls = <<>>

C20_Witness ==
    /\ op = "catchByTag"
    /\ Given = errTagged(Str("A"), Num(1))
    /\ input.tag = Str("A")
    /\ input.handler = [fn |-> "err"]
    /\ completion = Return(err(Num(1)))
    /\ calls = <<Num(1)>>

\* the set of the tags of a collection, without order or multiplicity
TagSet(tags) == {tags[i] : i \in DOMAIN tags}

\* C21: catchByTags completes as handler(error.error) does exactly when the
\* outcome is a failure whose tag is in the set of the supplied tags,
\* whatever their order and multiplicity; a success, and a failure whose tag
\* is not in that set, is returned unchanged without invoking the handler.
C21_CatchByTagsMatchesMembers ==
    op = "catchByTags" =>
        /\ (isErr(Given) /\ IsTagged(GivenError)
               /\ GivenError.tag \in TagSet(input.tags)) =>
               /\ completion = Apply(input.handler, GivenError.error)
               /\ calls = <<GivenError.error>>
        /\ (isOk(Given)
               \/ (isErr(Given) /\ IsTagged(GivenError)
                      /\ GivenError.tag \notin TagSet(input.tags))) =>
               /\ completion = Return(Given)
               /\ calls = <<>>

C21_Witness ==
    /\ op = "catchByTags"
    /\ Given = errTagged(Str("B"), Num(1))
    /\ input.tags = <<Str("A"), Str("B")>>
    /\ input.handler = [fn |-> "ok"]
    /\ completion = Return(ok(Num(1)))
    /\ calls = <<Num(1)>>

\* C22: a failure whose error is not a tagged-error record is never matched
\* by catchByTag or catchByTags, whatever the tag or tags: the handler is
\* not invoked and the failure is returned unchanged.
C22_UntaggedPassesThrough ==
    (op \in {"catchByTag", "catchByTags"} /\ isErr(Given) /\ ~IsTagged(GivenError)) =>
        /\ completion = Return(Given)
        /\ calls = <<>>

\* C23: for every value v, null, undefined, records and sequences included,
\* ok(v) is a success: isOk holds of it, isErr does not, and the value it
\* contains is v.
C23_OkIsSuccess ==
    op = "ok" =>
        /\ completion.kind = "return"
        /\ isOk(completion.value)
        /\ ~isErr(completion.value)
        /\ valueOf(completion.value) = input.value

C23_Witness ==
    /\ op = "ok"
    /\ input.value = Null
    /\ completion = Return(Arr(<<Null, Null>>))

\* C24: for every error value e, err(e) is a failure: isErr holds of it,
\* isOk does not, and the error it contains is e.
C24_ErrIsFailure ==
    op = "err" =>
        /\ completion.kind = "return"
        /\ isErr(completion.value)
        /\ ~isOk(completion.value)
        /\ errorOf(completion.value) = input.error

\* the operators that return an outcome
OutcomeOps ==
    {"ok", "err", "map", "andThen", "mapError", "orElse", "all", "any", "zip",
     "zip3", "tryCatch", "catchByTag", "catchByTags", "fn"}

\* the outcome an operator has returned
ReturnedOutcome ==
    /\ op \in OutcomeOps
    /\ completion.kind = "return"
    /\ completion.value.type = "array"

\* C25: every outcome the constructors and the operators return is exactly
\* one of success or failure: its two slots are never both populated and
\* never both empty, and exactly one of isOk / isErr holds of it.
C25_ExactlyOneSlot ==
    ReturnedOutcome =>
        LET error == errorOf(completion.value)
            value == valueOf(completion.value)
        IN  /\ ~(error # Null /\ value # Null)
            /\ ~(error = Null /\ value = Null)
            /\ isOk(completion.value) # isErr(completion.value)

\* ---- asynchronous variants
AsyncOps == {"mapAsync", "andThenAsync", "catchByTagAsync", "catchByTagsAsync"}

\* the function handed to the asynchronous variant
AsyncHandler == IF op \in {"mapAsync", "andThenAsync"} THEN input.fn ELSE input.handler

\* the input is one the variant hands to its function: a success for
\* mapAsync and andThenAsync, a failure carrying the tag (one of the tags)
\* for the tag operators
AsyncMatches ==
    CASE op \in {"mapAsync", "andThenAsync"} -> isOk(Given)
      [] op = "catchByTagAsync" ->
            isErr(Given) /\ IsTagged(GivenError) /\ GivenError.tag = input.tag
      [] op = "catchByTagsAsync" ->
            isErr(Given) /\ IsTagged(GivenError) /\ GivenError.tag \in TagSet(input.tags)

\* the input is one the variant passes through
AsyncPasses ==
    IF op \in {"mapAsync", "andThenAsync"} THEN isErr(Given)
    ELSE isOk(Given) \/ (isErr(Given) /\ IsTagged(GivenError) /\ ~AsyncMatches)

\* the argument the variant hands to its function
AsyncArgument ==
    IF op \in {"mapAsync", "andThenAsync"} THEN GivenValue ELSE GivenError.error

\* what the synchronous counterpart returns when its function returns x
SyncCounterpart(x) == IF op = "mapAsync" THEN ok(x) ELSE x

\* C26: an asynchronous variant given an input its function does not apply
\* to returns a computation already resolved to the unchanged input, without
\* invoking the function; given one it applies to, it invokes the function
\* once and, when the function's computation has resolved to x and no
\* reaction is left to run, the returned computation is resolved to what
\* the synchronous counterpart returns for x.
C26_AsyncVariantsAgree ==
    op \in AsyncOps =>
        /\ AsyncPasses =>
               /\ IsPromise(completion)
               /\ promises[completion.value.id] = Fulfilled(Given)
               /\ calls = <<>>
        /\ (AsyncMatches /\ AsyncHandler.fn = "async") =>
               /\ calls = <<AsyncArgument>>
               /\ IsPromise(completion)
               /\ (promises[1].state = "fulfilled" /\ jobs = <<>>) =>
                      promises[completion.value.id] =
                          Fulfilled(SyncCounterpart(promises[1].value))

C26_Witness ==
    /\ op = "mapAsync"
    /\ Given = ok(Num(1))
    /\ input.fn = [fn |-> "async"]
    /\ calls = <<Num(1)>>
    /\ promises[1] = Fulfilled(Num(2))
    /\ jobs = <<>>
    /\ promises[completion.value.id] = Fulfilled(ok(Num(2)))

AllAsyncRejected == {i \in 1..AllAsyncN : promises[i].state = "rejected"}
AllAsyncFirstRejected ==
    settled[Lowest({k \in DOMAIN settled : settled[k] \in AllAsyncRejected})]

\* C28: when a constituent of allAsync rejects, the returned computation
\* rejects, with the reason of the constituent that rejected first, rather
\* than resolving to a failure outcome, once the queued reactions have run
\* and whether or not the other constituents have settled; it is resolved
\* to an outcome only when every constituent has resolved.
C28_AllAsyncRejects ==
    op = "allAsync" =>
        /\ IsPromise(completion)
        /\ (AllAsyncRejected # {} /\ jobs = <<>>) =>
               AllAsyncOuter = Rejected(promises[AllAsyncFirstRejected].reason)
        /\ AllAsyncOuter.state = "rejected" => AllAsyncRejected # {}
        /\ AllAsyncOuter.state = "fulfilled" => AllAsyncRejected = {}

\* the returned computation has rejected while a constituent is pending
C28_Witness ==
    /\ op = "allAsync"
    /\ AllAsyncN = 2
    /\ promises[2] = Rejected(Num(1))
    /\ promises[1].state = "pending"
    /\ AllAsyncOuter = Rejected(Num(1))

\* C29: zip and zip3 agree with all on the sequences of two and of three
\* outcomes, in the variant returned and in the failure reported.
C29_ZipAgreesWithAll ==
    op \in {"zip", "zip3"} => completion = Return(all(input.results))

C29_Witness ==
    /\ op = "zip3"
    /\ input.results = <<ok(Num(1)), err(Num(1)), err(Num(2))>>
    /\ completion = Return(err(Num(1)))

\* ---- fn(fn(g))
\* the computation of the callable, the one fn(g) returns for it, and the
\* one fn(fn(g)) returns
FnFnCallee == promises[1]
FnFnSingle == promises[2]
FnFnDouble == promises[completion.value.id]

\* an UnhandledError wrapping an UnhandledError
IsDoublyUnhandled(outcome) ==
    /\ errorOf(outcome).type = "UnhandledError"
    /\ errorOf(outcome).originalError.type = "UnhandledError"

====
